---- MODULE Spec2Model ----
(***************************************************************************)
(* Model of llama_panel.py: the expert's bounded reasoning loop            *)
(* (ExpertSystem.get_consensus_answer), the panel fan-out / fan-in         *)
(* (ExpertSystem._query_panel, PanelMember.query), the retrieval adapters  *)
(* (search_web, read_webpage) and the part of main that starts sessions.   *)
(*                                                                         *)
(* A Python string is a Text: a sequence of tokens, concatenated with \o.  *)
(* The empty string is the empty sequence, so truthiness is Len > 0.       *)
(***************************************************************************)
EXTENDS Integers, Sequences, FiniteSets, TLC

\* ---------------------------------------------------------------- bounds
MaxSteps == 3
MaxPanel == 2
MaxSessions == 2

\* ------------------------------------------------------------ text helpers
RECURSIVE Join(_, _)
\* sep.join(texts)
Join(texts, sep) ==
    IF Len(texts) = 0 THEN <<>>
    ELSE IF Len(texts) = 1 THEN texts[1]
    ELSE texts[1] \o <<sep>> \o Join(Tail(texts), sep)

Last(seq) == seq[Len(seq)]

\* ------------------------------------------------- Python / JSON values
\* A value read out of the parsed tool call: a key that is absent, JSON
\* null (Python None) or a string.
Absent == [t |-> "absent", s |-> <<>>]
None == [t |-> "null", s |-> <<>>]
PyStr(text) == [t |-> "str", s |-> text]

\* str(v) as used by print and by f-strings
Str(v) == IF v.t = "str" THEN v.s ELSE <<"None">>

\* bool(v)
Truthy(v) == v.t = "str" /\ Len(v.s) > 0

\* dict.get(key, default)
Get(d, key, default) == IF d[key].t = "absent" THEN default ELSE d[key]

Keys == {"tool", "question", "query", "url", "answer", "reason"}
EmptyDict == [k \in Keys |-> Absent]
Dict(tool, key, val, reason) ==
    [k \in Keys |-> IF k = "tool" THEN tool
                    ELSE IF k = key THEN val
                    ELSE IF k = "reason" THEN reason
                    ELSE Absent]

\* ------------------------------------------------------ expert replies
\* The raw reply strings the expert model may return.
R_text == "I think the answer is 42"
R_list == "[1]"
R_panel == "{\"tool\":\"llama_panel\",\"question\":\"Q\",\"reason\":\"r\"}"
R_search == "{\"tool\":\"search_web\",\"query\":\"x\",\"reason\":\"r\"}"
R_read == "{\"tool\":\"read_webpage\",\"url\":\"u\"}"
R_final == "{\"tool\":\"final_answer\",\"answer\":\"42\"}"
R_final_reason == "{\"tool\":\"final_answer\",\"answer\":\"42\",\"reason\":\"r\"}"
R_final_missing == "{\"tool\":\"final_answer\"}"
R_final_empty == "{\"tool\":\"final_answer\",\"answer\":\"\"}"
R_final_null == "{\"tool\":\"final_answer\",\"answer\":null}"
R_unknown == "{\"tool\":\"fly_to_moon\"}"
R_notool == "{}"

Replies ==
    {R_text, R_list, R_panel, R_search, R_read, R_final, R_final_reason,
     R_final_missing, R_final_empty, R_final_null, R_unknown, R_notool}

\* json.loads(assistant_message): raises JSONDecodeError (kind "error"),
\* or returns a list (kind "list") or a dict (kind "dict").
json_loads(raw) ==
    CASE raw = R_text -> [kind |-> "error", d |-> EmptyDict]
      [] raw = R_list -> [kind |-> "list", d |-> EmptyDict]
      [] raw = R_panel ->
            [kind |-> "dict",
             d |-> Dict(PyStr(<<"llama_panel">>), "question", PyStr(<<"Q">>), PyStr(<<"r">>))]
      [] raw = R_search ->
            [kind |-> "dict",
             d |-> Dict(PyStr(<<"search_web">>), "query", PyStr(<<"x">>), PyStr(<<"r">>))]
      [] raw = R_read ->
            [kind |-> "dict",
             d |-> Dict(PyStr(<<"read_webpage">>), "url", PyStr(<<"u">>), Absent)]
      [] raw = R_final ->
            [kind |-> "dict",
             d |-> Dict(PyStr(<<"final_answer">>), "answer", PyStr(<<"42">>), Absent)]
      [] raw = R_final_reason ->
            [kind |-> "dict",
             d |-> Dict(PyStr(<<"final_answer">>), "answer", PyStr(<<"42">>), PyStr(<<"r">>))]
      [] raw = R_final_missing ->
            [kind |-> "dict",
             d |-> Dict(PyStr(<<"final_answer">>), "answer", Absent, Absent)]
      [] raw = R_final_empty ->
            [kind |-> "dict",
             d |-> Dict(PyStr(<<"final_answer">>), "answer", PyStr(<<>>), Absent)]
      [] raw = R_final_null ->
            [kind |-> "dict",
             d |-> Dict(PyStr(<<"final_answer">>), "answer", None, Absent)]
      [] raw = R_unknown ->
            [kind |-> "dict",
             d |-> Dict(PyStr(<<"fly_to_moon">>), "answer", Absent, Absent)]
      [] raw = R_notool -> [kind |-> "dict", d |-> EmptyDict]

\* ------------------------------------------------------------ adapters
\* What the search engine does: results, no results, or a raised exception.
SearchResults == {"ok", "none", "raise"}

\* search_web(query): the returned string.
search_web(query, result) ==
    CASE result = "ok" ->
            <<"Google Search Results for '">> \o Str(query) \o <<"':\n\n", "results">>
      [] result = "none" -> <<"No results found.">>
      [] result = "raise" -> <<"An error occurred during the Google search.">>

\* search_web(query): the lines written to stderr.
search_web_log(query, result) ==
    << <<"> Performing Google search for: '">> \o Str(query) \o <<"'">> >>
    \o (CASE result = "ok" -> << <<"> Found ", "n", " URLs.">> >>
          [] result = "none" -> <<>>
          [] result = "raise" -> << <<"Error during Google search: ", "e">> >>)

\* What the page fetch does: a page, an httpx.RequestError, or any other
\* exception (a non-success status, a parser failure).
FetchResults == {"ok", "RequestError", "Exception"}

\* read_webpage(url): the returned string.
read_webpage(url, result) ==
    CASE result = "ok" ->
            <<"Content from ">> \o Str(url) \o <<":\n\n", "clean_text", "...">>
      [] result = "RequestError" ->
            <<"Error fetching URL ">> \o Str(url) \o <<": ", "e">>
      [] result = "Exception" ->
            <<"An unexpected error occurred while processing ">> \o Str(url) \o <<": ", "e">>

\* read_webpage(url): the lines written to stderr.
read_webpage_log(url, result) ==
    << <<"> Fetching content from URL: ">> \o Str(url) >>
    \o (CASE result = "ok" ->
                << <<"> Successfully fetched and parsed content from ">> \o Str(url) >>
          [] OTHER -> << <<"> ">> \o read_webpage(url, result) >>)

\* What a panel member's inference call does: a reply, an
\* ollama.ResponseError, or any other exception (transport, timeout).
MemberResults == {"ok", "ResponseError", "raise"}

\* PanelMember.query(question): what the coroutine yields to gather. exc
\* says that it raised; val is the returned string or the exception's text.
query(model, result) ==
    CASE result = "ok" -> [exc |-> FALSE, val |-> <<"reply of ", model>>]
      [] result = "ResponseError" ->
            [exc |-> FALSE,
             val |-> <<"Error: Could not get a response from model '", model, "'.">>]
      [] result = "raise" -> [exc |-> TRUE, val |-> <<"e">>]

\* --------------------------------------------------------- configuration
\* The command line's defaults.
expert_model == "mistral-small3.2"
DefaultPanel == <<"gemma3:4b", "granite3.3:2b", "qwen3:4b">>
Lines == {"What is 6*7?", "exit", "QUIT"}

\* The model:temperature strings of the command line, cut into tokens at
\* every ':' and '.': "gemma3:4b:0.5" is gemma3 : 4b : 0 . 5
DefaultPanelNames ==
    << <<"gemma3", ":", "4b">>, <<"granite3", ".", "3", ":", "2b">>, <<"qwen3", ":", "4b">> >>
DefaultPanelArgs ==
    [j \in 1..Len(DefaultPanelNames) |-> DefaultPanelNames[j] \o <<":", "0", ".", "5">>]
DefaultExpertArg == <<"mistral-small3", ".", "2", ":", "0", ".", "0">>

\* Arguments a user may get wrong: the temperature left out after a tagged
\* model name ("gemma3:4b"), and no colon at all ("qwen3").
BadArgs == { <<"gemma3", ":", "4b">>, <<"qwen3">> }
ExpertArgs == {DefaultExpertArg, <<"mistral-small3", ".", "2">>}

\* The --panel lists: a prefix of the default list, or such a prefix with a
\* wrong string as its last element.
PanelArgs ==
    LET prefix(k) == SubSeq(DefaultPanelArgs, 1, k)
    IN  {prefix(k) : k \in 1..MaxPanel}
        \cup {Append(prefix(k - 1), bad) : k \in 1..MaxPanel, bad \in BadArgs}

\* The tokens that are runs of decimal digits.
DigitRuns == {"0", "2", "3", "5"}

\* str.isdigit(): not empty, and nothing but digits.
isdigit(text) == Len(text) > 0 /\ \A n \in 1..Len(text) : text[n] \in DigitRuns

\* str.replace('.', '', 1): the first '.' is taken out.
replace_first_dot(text) ==
    LET dots == {n \in 1..Len(text) : text[n] = "."}
    IN  IF dots = {} THEN text
        ELSE LET n == CHOOSE d \in dots : \A e \in dots : d <= e
             IN  SubSeq(text, 1, n - 1) \o SubSeq(text, n + 1, Len(text))

\* str.rsplit(':', 1): cut at the last ':' when there is one.
rsplit(value) ==
    LET colons == {n \in 1..Len(value) : value[n] = ":"}
    IN  IF colons = {} THEN <<value>>
        ELSE LET n == CHOOSE c \in colons : \A e \in colons : e <= c
             IN  <<SubSeq(value, 1, n - 1), SubSeq(value, n + 1, Len(value))>>

\* parse_model_temp with the check of the temperature left out.
parse_model_temp_any_suffix(value) ==
    LET parts == rsplit(value)
    IN  IF Len(parts) = 2
        THEN [ok |-> TRUE, model |-> parts[1], temperature |-> parts[2]]
        ELSE [ok |-> FALSE, model |-> <<>>, temperature |-> <<>>]

\* parse_model_temp(value): the pair, or argparse.ArgumentTypeError (ok is
\* FALSE). The temperature is kept as the text that float() is given.
parse_model_temp(value) ==
    LET parts == rsplit(value)
    IN  IF Len(parts) = 2 /\ isdigit(replace_first_dot(parts[2]))
        THEN [ok |-> TRUE, model |-> parts[1], temperature |-> parts[2]]
        ELSE [ok |-> FALSE, model |-> <<>>, temperature |-> <<>>]

\* The model name as the one string that PanelMember keeps in self.model.
model_string(name) ==
    IF \E j \in 1..Len(DefaultPanelNames) : DefaultPanelNames[j] = name
    THEN DefaultPanel[CHOOSE j \in 1..Len(DefaultPanelNames) : DefaultPanelNames[j] = name]
    ELSE IF name = <<"mistral-small3", ".", "2">> THEN expert_model
    ELSE IF Len(name) = 1 THEN name[1]
    ELSE "?"

\* str.lower() on the lines above
Lower(line) == IF line = "QUIT" THEN "quit" ELSE line

EXPERT_SYSTEM_PROMPT == <<"EXPERT_SYSTEM_PROMPT">>

\* ------------------------------------------------------------------ state
VARIABLES
    args,                   \* args.expert and args.panel as the command line gives them
    max_reasoning_steps,    \* self.max_reasoning_steps
    panel,                  \* self.panel: the members' model names, in registration order
    question,               \* args.question
    verbose,                \* args.verbose
    thinking,               \* args.thinking
    write_convo,            \* args.write_convo
    pc,                     \* "start", "main", "loop" (head of the for loop), "gather", "exited"
    conversation_history,   \* get_consensus_answer's local
    tool_outputs,           \* get_consensus_answer's local
    i,                      \* the loop variable: steps completed so far
    tool_output,            \* the llama_panel step's tool_output while the panel is consulted
    tasks,                  \* _query_panel's member calls: prompt sent, done, result
    completed,              \* member indices in the order their calls completed
    chat_calls,             \* expert inference calls made in this session
    adapter_calls,          \* adapter invocations of this session, in order
    stdout,                 \* what this session printed to sys.stdout
    stderr,                 \* what this session printed to sys.stderr
    outcome,                \* how get_consensus_answer ended
    convo,                  \* the .convo files written by this session
    sessions,               \* get_consensus_answer calls so far
    exit_code               \* the process's exit code, -1 while it runs

config == <<args, max_reasoning_steps, panel, question, verbose, thinking, write_convo>>
session == <<conversation_history, tool_outputs, i, tool_output, tasks, completed,
             chat_calls, adapter_calls, stdout, stderr, outcome, convo>>
vars == <<config, pc, session, sessions, exit_code>>

Running == [kind |-> "Running", arg |-> <<>>]
Outcome(kind, arg) == [kind |-> kind, arg |-> arg]

Turn(role, content) == [role |-> role, content |-> content]

Init ==
    /\ args \in [expert : ExpertArgs, panel : PanelArgs]
    /\ max_reasoning_steps \in 0..MaxSteps
    /\ panel = <<>>
    /\ question \in {None, PyStr(<<"What is 6*7?">>)}
    /\ verbose \in BOOLEAN
    /\ thinking \in BOOLEAN
    /\ write_convo \in BOOLEAN
    \* the transcript and the read loop are explored without the thinking display
    /\ (write_convo \/ ~Truthy(question)) => (~verbose /\ ~thinking)
    /\ pc = "start"
    /\ conversation_history = <<>>
    /\ tool_outputs = <<>>
    /\ i = 0
    /\ tool_output = <<>>
    /\ tasks = <<>>
    /\ completed = <<>>
    /\ chat_calls = 0
    /\ adapter_calls = <<>>
    /\ stdout = <<>>
    /\ stderr = <<>>
    /\ outcome = Running
    /\ convo = <<>>
    /\ sessions = 0
    /\ exit_code = -1

\* ------------------------------------------------------------------- main
\* get_consensus_answer with the history and the tool outputs kept on the
\* ExpertSystem between calls: a later session continues the lists.
Enter_shared(user_prompt) ==
    /\ pc' = "loop"
    /\ conversation_history' =
          IF conversation_history = <<>>
          THEN << Turn("system", EXPERT_SYSTEM_PROMPT \o <<"Current date: ", "now">>),
                  Turn("user", user_prompt) >>
          ELSE Append(conversation_history, Turn("user", user_prompt))
    /\ tool_outputs' = tool_outputs
    /\ i' = 0
    /\ tool_output' = <<>>
    /\ tasks' = <<>>
    /\ completed' = <<>>
    /\ chat_calls' = 0
    /\ adapter_calls' = <<>>
    /\ stdout' = <<>>
    /\ stderr' = <<>>
    /\ outcome' = Running
    /\ convo' = <<>>
    /\ sessions' = sessions + 1

\* get_consensus_answer is entered: lines 130-131.
Enter(user_prompt) ==
    /\ pc' = "loop"
    /\ conversation_history' =
          << Turn("system", EXPERT_SYSTEM_PROMPT \o <<"Current date: ", "now">>),
             Turn("user", user_prompt) >>
    /\ tool_outputs' = <<>>
    /\ i' = 0
    /\ tool_output' = <<>>
    /\ tasks' = <<>>
    /\ completed' = <<>>
    /\ chat_calls' = 0
    /\ adapter_calls' = <<>>
    /\ stdout' = <<>>
    /\ stderr' = <<>>
    /\ outcome' = Running
    /\ convo' = <<>>
    /\ sessions' = sessions + 1

\* main up to the construction of the ExpertSystem: lines 202-215. argparse
\* turns a wrong --expert into a usage error (exit code 2); a wrong --panel
\* string raises ArgumentTypeError at line 212, outside the try, and the
\* interpreter ends with a traceback (exit code 1).
ParseArgs ==
    /\ pc = "start"
    /\ IF ~parse_model_temp(args.expert).ok
       THEN pc' = "exited" /\ exit_code' = 2 /\ panel' = panel
       ELSE IF \E j \in 1..Len(args.panel) : ~parse_model_temp(args.panel[j]).ok
       THEN pc' = "exited" /\ exit_code' = 1 /\ panel' = panel
       ELSE /\ pc' = "main"
            /\ exit_code' = exit_code
            /\ panel' = [j \in 1..Len(args.panel) |->
                            model_string(parse_model_temp(args.panel[j]).model)]
    /\ UNCHANGED <<args, max_reasoning_steps, question, verbose, thinking, write_convo,
                   session, sessions>>

\* Ctrl-C while main waits at input(): KeyboardInterrupt leaves asyncio.run
\* and lines 235-237 exit with 0.
Interrupt ==
    /\ pc = "main"
    /\ ~Truthy(question)
    /\ pc' = "exited"
    /\ exit_code' = 0
    /\ UNCHANGED <<config, session, sessions>>

\* main with a question argument: one session.
AskQuestion ==
    /\ pc = "main"
    /\ Truthy(question)
    /\ sessions = 0
    /\ Enter(Str(question))
    /\ UNCHANGED <<config, exit_code>>

\* main without a question argument: one turn of the read loop.
ReadInput(line) ==
    /\ pc = "main"
    /\ ~Truthy(question)
    /\ IF Lower(line) \in {"exit", "quit"}
       THEN /\ pc' = "exited"
            /\ exit_code' = 0
            /\ UNCHANGED <<config, session, sessions>>
       ELSE /\ sessions < MaxSessions
            /\ Enter(<<line>>)
            /\ UNCHANGED <<config, exit_code>>

\* ------------------------------------------------- ExpertSystem._query_panel
\* panel_prompt with only the latest tool output as context.
panel_prompt_latest(q, outputs) ==
    IF Len(Join(outputs, "\n\n")) > 0
    THEN PyStr(Str(q) \o <<"\n\nContext from previous tool outputs:\n">>
               \o Last(outputs))
    ELSE q

\* panel_prompt: line 119-120. question is the value handed over by the
\* caller; the prompt is a formatted string only when there is context.
panel_prompt(q, outputs) ==
    IF Len(Join(outputs, "\n\n")) > 0
    THEN PyStr(Str(q) \o <<"\n\nContext from previous tool outputs:\n">>
               \o Join(outputs, "\n\n"))
    ELSE q

\* One entry of panel_responses: line 124.
panel_response(model, resp) ==
    IF ~resp.exc
    THEN <<"Response from '", model, "':\n">> \o resp.val
    ELSE <<"Exception from panelist ", model, ": ">> \o resp.val

\* panel_responses built in the order in which the calls completed.
panel_responses_as_completed(members, results) ==
    [j \in 1..Len(members) |->
        panel_response(members[completed[j]], results[completed[j]])]

\* panel_responses: line 124, zip(self.panel, panel_raw_responses).
panel_responses(members, results) ==
    [j \in 1..Len(members) |-> panel_response(members[j], results[j])]

\* The string _query_panel returns: line 125.
panel_output(members, results) ==
    Join(panel_responses(members, results), "\n\n---\n\n")

\* --------------------------------------- ExpertSystem.get_consensus_answer
\* The loop with one iteration too many.
LoopContinues_inclusive == i <= max_reasoning_steps

\* for i in range(self.max_reasoning_steps)
LoopContinues == i < max_reasoning_steps

Assistant(raw) == Turn("assistant", <<raw>>)

\* print(response): the whole chat response object, not its content.
Response(raw) ==
    <<"model='", expert_model, "' message=Message(role='assistant', content='", raw, "')">>

StepBanner ==
    <<"--- Expert Reasoning Step ", ToString(i + 1), "/",
      ToString(max_reasoning_steps), " ---">>

\* Lines 141-142. The expert model returns a reasoning trace when asked to.
ThinkingPrint ==
    IF verbose /\ thinking
    THEN << <<"--- Expert Thinking ---", "trace">> >>
    ELSE <<>>

\* A routing that takes a tool call only when it comes with a reason.
tool_name_with_reason(raw) ==
    IF Get(json_loads(raw).d, "reason", Absent) = Absent
    THEN None
    ELSE Get(json_loads(raw).d, "tool", None)

\* Line 147.
tool_name(raw) == Get(json_loads(raw).d, "tool", None)
tool_reason(raw) == Get(json_loads(raw).d, "reason", None)

\* Lines 149-151.
ToolLog(raw) ==
    << <<"> Expert wants to use tool: '">> \o Str(tool_name(raw)) \o <<"'">> >>
    \o (IF Truthy(tool_reason(raw))
        THEN << <<"> Reason for tool selection: ">> \o Str(tool_reason(raw)) >>
        ELSE <<>>)

\* The echo that starts every tool_output: lines 155, 160, 164.
ToolPrefix(name, arg, reason) ==
    <<"Using ", name, "(">> \o Str(arg) \o <<") with reason '">> \o Str(reason)
    \o <<"'.\nOutput:\n">>

\* Lines 181-183 with a history that is cut down to the prompt and the
\* latest exchange.
AppendToolOutput_window(history, out) ==
    /\ conversation_history' =
          SubSeq(history, 1, 2) \o <<Last(history), Turn("tool", out)>>
    /\ tool_outputs' = Append(tool_outputs, out)
    /\ i' = i + 1
    /\ pc' = "loop"

\* Lines 181-183 without line 183: the tool turn is appended to the history
\* and the output is not kept as context.
AppendToolOutput_forgets(history, out) ==
    /\ conversation_history' =
          IF Len(out) > 0 THEN Append(history, Turn("tool", out)) ELSE history
    /\ tool_outputs' = tool_outputs
    /\ i' = i + 1
    /\ pc' = "loop"

\* Lines 181-183: a truthy tool_output becomes a tool turn and is kept as
\* context; the iteration ends.
AppendToolOutput(history, out) ==
    /\ conversation_history' =
          IF Len(out) > 0 THEN Append(history, Turn("tool", out)) ELSE history
    /\ tool_outputs' = IF Len(out) > 0 THEN Append(tool_outputs, out) ELSE tool_outputs
    /\ i' = i + 1
    /\ pc' = "loop"

\* get_consensus_answer returns or raises into main: lines 217, 223, 225-230.
\* An exception ends the process with exit code 1; a return ends it with 0
\* when there was a question argument and goes back to the prompt otherwise.
Leave(kind, arg) ==
    /\ outcome' = Outcome(kind, arg)
    /\ IF kind = "Raised"
       THEN pc' = "exited" /\ exit_code' = 1
       ELSE IF Truthy(question)
       THEN pc' = "exited" /\ exit_code' = 0
       ELSE pc' = "main" /\ exit_code' = exit_code

\* The chat call of one iteration returned raw: lines 133-143.
Chat(raw) ==
    /\ pc = "loop"
    /\ LoopContinues
    /\ raw \in Replies
    /\ chat_calls' = chat_calls + 1

\* The chat call raises ollama.ResponseError, which nothing in the loop catches.
ChatRaises ==
    /\ pc = "loop"
    /\ LoopContinues
    /\ chat_calls' = chat_calls + 1
    /\ stderr' = Append(stderr, StepBanner)
    /\ Leave("Raised", <<"ResponseError">>)
    /\ tasks' = <<>>
    /\ completed' = <<>>
    /\ UNCHANGED <<config, conversation_history, tool_outputs, i, tool_output,
                   adapter_calls, stdout, convo, sessions>>

\* json.loads raises JSONDecodeError: lines 184-187.
StepJSONDecodeError(raw) ==
    /\ Chat(raw)
    /\ json_loads(raw).kind = "error"
    /\ conversation_history' = Append(conversation_history, Assistant(raw))
    /\ stderr' = stderr \o <<StepBanner,
          <<"Warning: Model did not return valid JSON. Treating response as final.">> >>
    /\ stdout' = stdout \o ThinkingPrint \o <<Response(raw)>>
    /\ Leave("RawFallback", Response(raw))
    /\ tasks' = <<>>
    /\ completed' = <<>>
    /\ UNCHANGED <<config, tool_outputs, i, tool_output, adapter_calls, convo,
                   sessions>>

\* json.loads returns a value that is no dict: tool_call.get (line 147)
\* raises AttributeError, which the except clause of line 184 does not catch.
StepAttributeError(raw) ==
    /\ Chat(raw)
    /\ json_loads(raw).kind = "list"
    /\ conversation_history' = Append(conversation_history, Assistant(raw))
    /\ stderr' = Append(stderr, StepBanner)
    /\ stdout' = stdout \o ThinkingPrint
    /\ Leave("Raised", <<"AttributeError">>)
    /\ tasks' = <<>>
    /\ completed' = <<>>
    /\ UNCHANGED <<config, tool_outputs, i, tool_output, adapter_calls, convo,
                   sessions>>

\* tool_name == "search_web": lines 159-162, 181-183.
StepSearchWeb(raw, result) ==
    LET q == Get(json_loads(raw).d, "query", PyStr(<<>>))
        out == ToolPrefix("search_web", q, tool_reason(raw)) \o search_web(q, result)
    IN  /\ Chat(raw)
        /\ json_loads(raw).kind = "dict"
        /\ tool_name(raw) = PyStr(<<"search_web">>)
        /\ result \in SearchResults
        /\ adapter_calls' = Append(adapter_calls, [fn |-> "search_web", to |-> "googlesearch", arg |-> q])
        /\ stderr' = stderr \o <<StepBanner>> \o ToolLog(raw) \o search_web_log(q, result)
        /\ stdout' = stdout \o ThinkingPrint
        /\ AppendToolOutput(Append(conversation_history, Assistant(raw)), out)
        /\ tasks' = <<>>
        /\ completed' = <<>>
        /\ UNCHANGED <<config, tool_output, outcome, convo, sessions, exit_code>>

\* tool_name == "read_webpage": lines 163-166, 181-183.
StepReadWebpage(raw, result) ==
    LET url == Get(json_loads(raw).d, "url", PyStr(<<>>))
        out == ToolPrefix("read_webpage", url, tool_reason(raw)) \o read_webpage(url, result)
    IN  /\ Chat(raw)
        /\ json_loads(raw).kind = "dict"
        /\ tool_name(raw) = PyStr(<<"read_webpage">>)
        /\ result \in FetchResults
        /\ adapter_calls' = Append(adapter_calls, [fn |-> "read_webpage", to |-> "httpx", arg |-> url])
        /\ stderr' = stderr \o <<StepBanner>> \o ToolLog(raw) \o read_webpage_log(url, result)
        /\ stdout' = stdout \o ThinkingPrint
        /\ AppendToolOutput(Append(conversation_history, Assistant(raw)), out)
        /\ tasks' = <<>>
        /\ completed' = <<>>
        /\ UNCHANGED <<config, tool_output, outcome, convo, sessions, exit_code>>

\* A llama_panel step that starts the member calls and goes on without
\* awaiting them: the echo alone becomes the tool turn.
StepLlamaPanel_no_await(raw) ==
    LET q == Get(json_loads(raw).d, "question", PyStr(<<>>))
        prompt == panel_prompt(q, tool_outputs)
    IN  /\ Chat(raw)
        /\ json_loads(raw).kind = "dict"
        /\ tool_name(raw) = PyStr(<<"llama_panel">>)
        /\ tool_output' = <<>>
        /\ tasks' = [j \in 1..Len(panel) |->
                        [prompt |-> prompt, done |-> FALSE,
                         resp |-> [exc |-> FALSE, val |-> <<>>]]]
        /\ completed' = <<>>
        /\ adapter_calls' = adapter_calls \o
              [j \in 1..Len(panel) |-> [fn |-> "query", to |-> panel[j], arg |-> prompt]]
        /\ stderr' = stderr \o <<StepBanner>> \o ToolLog(raw)
        /\ stdout' = stdout \o ThinkingPrint
        /\ AppendToolOutput(Append(conversation_history, Assistant(raw)),
                            ToolPrefix("llama_panel", q, tool_reason(raw)))
        /\ UNCHANGED <<config, outcome, convo, sessions, exit_code>>

\* tool_name == "llama_panel": lines 154-157 and _query_panel up to the
\* gather of line 123. Every member's query coroutine is created with the
\* same panel_prompt and all of them are started before any result is awaited.
StepLlamaPanel(raw) ==
    LET q == Get(json_loads(raw).d, "question", PyStr(<<>>))
        prompt == panel_prompt(q, tool_outputs)
    IN  /\ Chat(raw)
        /\ json_loads(raw).kind = "dict"
        /\ tool_name(raw) = PyStr(<<"llama_panel">>)
        /\ conversation_history' = Append(conversation_history, Assistant(raw))
        /\ tool_output' = ToolPrefix("llama_panel", q, tool_reason(raw))
        /\ tasks' = [j \in 1..Len(panel) |->
                        [prompt |-> prompt, done |-> FALSE,
                         resp |-> [exc |-> FALSE, val |-> <<>>]]]
        /\ completed' = <<>>
        /\ adapter_calls' = adapter_calls \o
              [j \in 1..Len(panel) |-> [fn |-> "query", to |-> panel[j], arg |-> prompt]]
        /\ stderr' = stderr \o <<StepBanner>> \o ToolLog(raw)
              \o << <<"> Consulting the panel with the question: '">> \o Str(q) \o <<"'">> >>
              \o [j \in 1..Len(panel) |-> <<"  - Querying panelist '", panel[j], "'...">>]
        /\ stdout' = stdout \o ThinkingPrint
        /\ pc' = "gather"
        /\ UNCHANGED <<config, tool_outputs, i, outcome, convo, sessions, exit_code>>

\* A member call where an exception cancels the calls still pending, as a
\* task group does.
MemberCompletes_cancels(j, result) ==
    /\ pc = "gather"
    /\ j \in 1..Len(tasks)
    /\ ~tasks[j].done
    /\ result \in MemberResults
    /\ tasks' = [k \in 1..Len(tasks) |->
                    IF k = j
                    THEN [tasks[k] EXCEPT !.done = TRUE, !.resp = query(panel[j], result)]
                    ELSE IF result = "raise" /\ ~tasks[k].done
                    THEN [tasks[k] EXCEPT !.done = TRUE,
                                          !.resp = [exc |-> TRUE, val |-> <<"CancelledError">>]]
                    ELSE tasks[k]]
    /\ completed' = Append(completed, j)
    /\ stderr' = IF result = "ResponseError"
                 THEN Append(stderr, <<"Error querying panelist ", panel[j], ": ", "e">>)
                 ELSE stderr
    /\ UNCHANGED <<config, pc, conversation_history, tool_outputs, i, tool_output,
                   chat_calls, adapter_calls, stdout, outcome, convo, sessions, exit_code>>

\* A member call that pushes its reply onto the orchestrator's tool outputs
\* itself, as soon as it has it.
MemberCompletes_appends(j, result) ==
    /\ pc = "gather"
    /\ j \in 1..Len(tasks)
    /\ ~tasks[j].done
    /\ result \in MemberResults
    /\ tasks' = [tasks EXCEPT ![j].done = TRUE, ![j].resp = query(panel[j], result)]
    /\ completed' = Append(completed, j)
    /\ tool_outputs' = Append(tool_outputs, query(panel[j], result).val)
    /\ stderr' = IF result = "ResponseError"
                 THEN Append(stderr, <<"Error querying panelist ", panel[j], ": ", "e">>)
                 ELSE stderr
    /\ UNCHANGED <<config, pc, conversation_history, i, tool_output,
                   chat_calls, adapter_calls, stdout, outcome, convo, sessions, exit_code>>

\* One member's call completes, in any order: PanelMember.query lines 99-104.
\* gather(return_exceptions=True) stores what it returned or raised at the
\* member's own index.
MemberCompletes(j, result) ==
    /\ pc = "gather"
    /\ j \in 1..Len(tasks)
    /\ ~tasks[j].done
    /\ result \in MemberResults
    /\ tasks' = [tasks EXCEPT ![j].done = TRUE, ![j].resp = query(panel[j], result)]
    /\ completed' = Append(completed, j)
    /\ stderr' = IF result = "ResponseError"
                 THEN Append(stderr, <<"Error querying panelist ", panel[j], ": ", "e">>)
                 ELSE stderr
    /\ UNCHANGED <<config, pc, conversation_history, tool_outputs, i, tool_output,
                   chat_calls, adapter_calls, stdout, outcome, convo, sessions, exit_code>>

\* The join without return_exceptions: a member's exception leaves
\* _query_panel and get_consensus_answer.
PanelJoin_propagates ==
    /\ pc = "gather"
    /\ \A j \in 1..Len(tasks) : tasks[j].done
    /\ IF \E j \in 1..Len(tasks) : tasks[j].resp.exc
       THEN /\ Leave("Raised", <<"Exception">>)
            /\ UNCHANGED <<conversation_history, tool_outputs, i, stderr>>
       ELSE /\ stderr' = Append(stderr, <<"> Panel consultation complete.">>)
            /\ AppendToolOutput(conversation_history,
                  tool_output \o panel_output(panel, [j \in 1..Len(tasks) |-> tasks[j].resp]))
            /\ UNCHANGED <<outcome, exit_code>>
    /\ tool_output' = <<>>
    /\ UNCHANGED <<config, tasks, completed, chat_calls, adapter_calls, stdout,
                   convo, sessions>>

\* gather returns once every member call is done: lines 123-127, then
\* lines 158 and 181-183 of the caller.
PanelJoin ==
    LET results == [j \in 1..Len(tasks) |-> tasks[j].resp]
        out == tool_output \o panel_output(panel, results)
    IN  /\ pc = "gather"
        /\ \A j \in 1..Len(tasks) : tasks[j].done
        /\ stderr' = Append(stderr, <<"> Panel consultation complete.">>)
        /\ AppendToolOutput(conversation_history, out)
        /\ tool_output' = <<>>
        /\ UNCHANGED <<config, tasks, completed, chat_calls, adapter_calls, stdout,
                       outcome, convo, sessions, exit_code>>

\* tool_name == "final_answer": lines 167-175. With write_convo the history
\* is dumped to a file; open() may raise OSError, which nothing here catches.
StepFinalAnswer(raw, write_ok) ==
    LET answer == Get(json_loads(raw).d, "answer", PyStr(<<"No answer provided.">>))
        history == Append(conversation_history, Assistant(raw))
    IN  /\ Chat(raw)
        /\ json_loads(raw).kind = "dict"
        /\ tool_name(raw) = PyStr(<<"final_answer">>)
        /\ write_ok \in (IF write_convo THEN BOOLEAN ELSE {TRUE})
        /\ conversation_history' = history
        /\ stdout' = stdout \o ThinkingPrint \o <<Str(answer)>>
        /\ convo' = IF write_convo /\ write_ok THEN Append(convo, history) ELSE convo
        /\ stderr' = stderr \o <<StepBanner>> \o ToolLog(raw)
              \o (IF write_convo /\ write_ok
                  THEN << <<"Conversation history written to ", "fname">> >>
                  ELSE <<>>)
        /\ IF write_ok
           THEN Leave("Concluded", Str(answer))
           ELSE Leave("Raised", <<"OSError">>)
        /\ tasks' = <<>>
        /\ completed' = <<>>
        /\ UNCHANGED <<config, tool_outputs, i, tool_output, adapter_calls,
                       sessions>>

\* An unknown tool name passed over: the step goes on like a tool step.
StepUnknownTool_ignored(raw) ==
    /\ Chat(raw)
    /\ json_loads(raw).kind = "dict"
    /\ tool_name(raw) \notin {PyStr(<<"llama_panel">>), PyStr(<<"search_web">>),
                              PyStr(<<"read_webpage">>), PyStr(<<"final_answer">>)}
    /\ stderr' = stderr \o <<StepBanner>> \o ToolLog(raw)
    /\ stdout' = stdout \o ThinkingPrint
    /\ AppendToolOutput(Append(conversation_history, Assistant(raw)),
                        <<"Unknown tool: ">> \o Str(tool_name(raw)))
    /\ tasks' = <<>>
    /\ completed' = <<>>
    /\ UNCHANGED <<config, tool_output, adapter_calls, outcome, convo, sessions, exit_code>>

Tools == {PyStr(<<"llama_panel">>), PyStr(<<"search_web">>), PyStr(<<"read_webpage">>),
          PyStr(<<"final_answer">>)}

\* Any other tool name, None included: lines 176-179.
StepUnknownTool(raw) ==
    /\ Chat(raw)
    /\ json_loads(raw).kind = "dict"
    /\ tool_name(raw) \notin Tools
    /\ conversation_history' = Append(conversation_history, Assistant(raw))
    /\ stderr' = stderr \o <<StepBanner>> \o ToolLog(raw)
          \o << <<"Error: Expert called an unknown tool: ">> \o Str(tool_name(raw)) >>
    /\ stdout' = stdout \o ThinkingPrint \o <<Response(raw)>>
    /\ Leave("UnknownTool", Str(tool_name(raw)))
    /\ tasks' = <<>>
    /\ completed' = <<>>
    /\ UNCHANGED <<config, tool_outputs, i, tool_output, adapter_calls, convo,
                   sessions>>

\* The loop ran out: lines 189-190.
Exhausted ==
    /\ pc = "loop"
    /\ ~LoopContinues
    /\ stderr' = Append(stderr, <<"--- Max Reasoning Steps Reached ---">>)
    /\ stdout' = Append(stdout,
          <<"The expert could not reach a consensus in the allowed number of steps.">>)
    /\ Leave("StepsExhausted", <<>>)
    /\ tasks' = <<>>
    /\ completed' = <<>>
    /\ UNCHANGED <<config, conversation_history, tool_outputs, i, tool_output,
                   chat_calls, adapter_calls, convo, sessions>>

\* ---------------------------------------------------------- specification
Next ==
    \/ ParseArgs
    \/ Interrupt
    \/ AskQuestion
    \/ \E line \in Lines : ReadInput(line)
    \/ ChatRaises
    \/ \E raw \in Replies : StepJSONDecodeError(raw)
    \/ \E raw \in Replies : StepAttributeError(raw)
    \/ \E raw \in Replies, result \in SearchResults : StepSearchWeb(raw, result)
    \/ \E raw \in Replies, result \in FetchResults : StepReadWebpage(raw, result)
    \/ \E raw \in Replies : StepLlamaPanel(raw)
    \/ \E j \in 1..MaxPanel, result \in MemberResults : MemberCompletes(j, result)
    \/ PanelJoin
    \/ \E raw \in Replies, write_ok \in BOOLEAN : StepFinalAnswer(raw, write_ok)
    \/ \E raw \in Replies : StepUnknownTool(raw)
    \/ Exhausted

Spec == Init /\ [][Next]_vars

\* ------------------------------------------------------------ properties
\* The raw reply of an assistant turn.
RawOf(turn) == turn.content[1]

RolesCount(role) ==
    Cardinality({n \in 1..Len(conversation_history) : conversation_history[n].role = role})

Ended == outcome.kind # "Running"

\* The expert's inference call itself failed: the case the claims set aside
\* when they assume that every adapter call returns.
ChatFailed == outcome = Outcome("Raised", <<"ResponseError">>)

\* The session's last turn is the assistant turn of a reply of the given set.
\* No state of the loop head has an assistant turn last, so this says that
\* the step of that reply is the one the session is in or ended with.
LastReplyIn(raws) ==
    /\ Len(conversation_history) > 0
    /\ Last(conversation_history).role = "assistant"
    /\ RawOf(Last(conversation_history)) \in raws

NonTerminalReplies == {R_panel, R_search, R_read}
FinalReplies == {R_final, R_final_reason, R_final_missing, R_final_empty, R_final_null}
UnknownReplies == {R_unknown, R_notool}

\* C1: whatever the expert replies, a session makes at most maxSteps expert
\* inference calls and, when every adapter call returned, ends as Concluded,
\* RawFallback, UnknownTool or StepsExhausted; it ends as StepsExhausted when
\* maxSteps steps passed without a terminal tool call.
C1_TerminatesWithOutcome ==
    /\ chat_calls <= max_reasoning_steps
    /\ (Ended /\ ~ChatFailed) =>
          outcome.kind \in {"Concluded", "RawFallback", "UnknownTool", "StepsExhausted"}
    /\ (Ended /\ ~ChatFailed /\ RolesCount("tool") = max_reasoning_steps) =>
          outcome.kind = "StepsExhausted"

\* C2: a final_answer reply ends the session as Concluded(answer): the answer
\* is the last line written to stdout, the assistant turn is the last turn
\* (no tool turn follows it) and no further inference call was made.
C2_FinalAnswerConcludes ==
    LastReplyIn({R_final, R_final_reason}) =>
        /\ outcome = Outcome("Concluded", <<"42">>)
        /\ Len(stdout) > 0
        /\ Last(stdout) = <<"42">>
        /\ chat_calls = RolesCount("assistant")
        /\ pc \in {"main", "exited"}

\* C3: a reply that is not JSON ends the session as RawFallback, and the text
\* written to stdout is exactly the raw reply string of the assistant turn.
C3_RawFallbackPrintsReply ==
    LastReplyIn({R_text}) =>
        /\ outcome.kind = "RawFallback"
        /\ Len(stdout) > 0
        /\ Last(stdout) = Last(conversation_history).content
        /\ pc \in {"main", "exited"}

\* C5: a final_answer whose answer is missing, empty or null prints the
\* "No answer provided." placeholder and the session ends as Concluded.
C5_MissingAnswerPlaceholder ==
    (LastReplyIn({R_final_missing, R_final_empty, R_final_null})
        /\ outcome.kind # "Raised") =>
        /\ outcome.kind = "Concluded"
        /\ Len(stdout) > 0
        /\ Last(stdout) = <<"No answer provided.">>

\* A step of the current session whose expert reply is one of raws: the
\* inference call was made and the reply became the next turn of the history.
StepOf(raws) ==
    /\ sessions' = sessions
    /\ chat_calls' = chat_calls + 1
    /\ Len(conversation_history') > Len(conversation_history)
    /\ conversation_history'[Len(conversation_history) + 1].role = "assistant"
    /\ RawOf(conversation_history'[Len(conversation_history) + 1]) \in raws

\* C4: a reply naming a tool outside the routing table (or none) ends the
\* session at that step as UnknownTool(name): only the assistant turn is
\* appended, no adapter is invoked, nothing is pushed onto the tool outputs,
\* and the ended session makes no further inference call.
C4_UnknownToolTerminal ==
    /\ [][StepOf(UnknownReplies) =>
            /\ outcome' = Outcome("UnknownTool",
                    Str(tool_name(RawOf(conversation_history'[Len(conversation_history) + 1]))))
            /\ Len(conversation_history') = Len(conversation_history) + 1
            /\ SubSeq(conversation_history', 1, Len(conversation_history)) = conversation_history
            /\ tool_outputs' = tool_outputs
            /\ adapter_calls' = adapter_calls
            /\ pc' \in {"main", "exited"}]_vars
    /\ [][(outcome.kind = "UnknownTool" /\ sessions' = sessions) =>
            (chat_calls' = chat_calls /\ conversation_history' = conversation_history)]_vars

C4_Witness ==
    /\ outcome = Outcome("UnknownTool", <<"None">>)
    /\ Len(tool_outputs) >= 1
    /\ LastReplyIn({R_notool})

AllRepliesIn(raws) ==
    \A n \in 1..Len(conversation_history) :
        conversation_history[n].role = "assistant" => RawOf(conversation_history[n]) \in raws

\* C6: the step index counts the tool turns appended so far, one per step from
\* 0, and a session whose replies were all llama_panel, search_web or
\* read_webpage calls ends as StepsExhausted after exactly maxSteps inference
\* calls and exactly maxSteps tool turns.
C6_ExactlyMaxSteps ==
    /\ i = RolesCount("tool")
    /\ (pc = "loop" /\ AllRepliesIn(NonTerminalReplies)) => chat_calls = i
    /\ (Ended /\ ~ChatFailed /\ AllRepliesIn(NonTerminalReplies)) =>
          /\ outcome.kind = "StepsExhausted"
          /\ chat_calls = max_reasoning_steps
          /\ RolesCount("tool") = max_reasoning_steps
          /\ i = max_reasoning_steps

C6_Witness ==
    /\ outcome.kind = "StepsExhausted"
    /\ max_reasoning_steps = MaxSteps
    /\ chat_calls = MaxSteps
    /\ AllRepliesIn({R_search})

AttributionMarks == {"Response from '", "Exception from panelist "}

RECURSIVE Sections(_, _)
\* The <<mark, member>> pairs of a text's sections from position n on, in
\* the order in which they appear.
Sections(text, n) ==
    IF n >= Len(text) THEN <<>>
    ELSE IF text[n] \in AttributionMarks
    THEN << <<text[n], text[n + 1]>> >> \o Sections(text, n + 1)
    ELSE Sections(text, n + 1)

Separators(text) == Cardinality({n \in 1..Len(text) : text[n] = "\n\n---\n\n"})

\* The tool turns that answer a llama_panel call.
PanelTurns ==
    {n \in 2..Len(conversation_history) :
        /\ conversation_history[n].role = "tool"
        /\ conversation_history[n - 1].role = "assistant"
        /\ RawOf(conversation_history[n - 1]) = R_panel}

\* C7: the text a panel consultation returns holds exactly one section per
\* registered member, attributed to the members in registration order,
\* whichever calls failed and in whatever order the calls completed.
C7_PanelSections ==
    /\ \A n \in PanelTurns :
          LET secs == Sections(conversation_history[n].content, 1)
          IN  /\ Len(secs) = Len(panel)
              /\ \A j \in 1..Len(panel) : secs[j][2] = panel[j]
              /\ Separators(conversation_history[n].content) = Len(panel) - 1
    /\ (pc = "loop" /\ Len(tasks) > 0) =>
          LET secs == Sections(Last(conversation_history).content, 1)
          IN  /\ Len(conversation_history) \in PanelTurns
              /\ \A j \in 1..Len(panel) :
                    secs[j][1] = IF tasks[j].resp.exc THEN "Exception from panelist "
                                 ELSE "Response from '"

C7_Witness ==
    /\ pc = "loop"
    /\ Len(tasks) = 2
    /\ completed = <<2, 1>>
    /\ tasks[1].resp.exc
    /\ tasks[2].resp = query(panel[2], "ResponseError")
    /\ Len(conversation_history) \in PanelTurns

\* C8: every llama_panel, search_web or read_webpage call yields a non-empty
\* tool result that is appended as a tool turn, after which the session is
\* back at the head of the loop; a failing adapter never ends the session:
\* the only state whose last turn is such a call is the panel being awaited.
C8_ErrorAsText ==
    /\ \A n \in 1..Len(conversation_history) :
          conversation_history[n].role = "tool" => Len(conversation_history[n].content) > 0
    /\ LastReplyIn(NonTerminalReplies) =>
          (pc = "gather" /\ ~Ended /\ RawOf(Last(conversation_history)) = R_panel)
    /\ pc = "loop" => (~Ended /\ RolesCount("assistant") = RolesCount("tool"))
    /\ outcome.kind = "Raised" =>
          (ChatFailed \/ LastReplyIn({R_list} \cup FinalReplies))

C8_Witness ==
    /\ pc = "loop"
    /\ i = 3
    /\ tool_outputs[1] = ToolPrefix("search_web", PyStr(<<"x">>), PyStr(<<"r">>))
                            \o search_web(PyStr(<<"x">>), "raise")
    /\ tool_outputs[2] = ToolPrefix("read_webpage", PyStr(<<"u">>), None)
                            \o read_webpage(PyStr(<<"u">>), "RequestError")
    /\ Len(tasks) = 2
    /\ tasks[1].resp.exc
    /\ tasks[2].resp = query(panel[2], "ResponseError")
    /\ Last(conversation_history).content = tool_outputs[3]

RECURSIVE EmbedsInOrder(_, _, _)
\* The texts of parts occur in text from position from on, in their order
\* and without overlapping.
EmbedsInOrder(text, from, parts) ==
    IF Len(parts) = 0 THEN TRUE
    ELSE \E n \in from..(Len(text) - Len(parts[1]) + 1) :
            /\ SubSeq(text, n, n + Len(parts[1]) - 1) = parts[1]
            /\ EmbedsInOrder(text, n + Len(parts[1]), Tail(parts))

RECURSIVE TotalLen(_)
TotalLen(parts) == IF Len(parts) = 0 THEN 0 ELSE Len(parts[1]) + TotalLen(Tail(parts))

\* C9: while the panel is consulted every member was sent the same prompt.
\* With no accumulated tool outputs it is the question itself; otherwise it
\* starts with the question and then holds every accumulated output, in
\* order and once each: they fill the prompt but for the heading and the
\* separators between them.
C9_PanelPrompt ==
    pc = "gather" =>
        LET q == Get(json_loads(RawOf(Last(conversation_history))).d, "question", PyStr(<<>>))
            prompt == tasks[1].prompt
            sent == SubSeq(adapter_calls, Len(adapter_calls) - Len(panel) + 1,
                           Len(adapter_calls))
        IN  /\ Len(tasks) = Len(panel)
            /\ \A j \in 1..Len(panel) :
                  /\ tasks[j].prompt = prompt
                  /\ sent[j] = [fn |-> "query", to |-> panel[j], arg |-> prompt]
            /\ IF Len(tool_outputs) = 0
               THEN prompt = q
               ELSE /\ prompt.t = "str"
                    /\ SubSeq(prompt.s, 1, Len(q.s)) = q.s
                    /\ EmbedsInOrder(prompt.s, Len(q.s) + 1, tool_outputs)
                    /\ Len(prompt.s) =
                          Len(q.s) + 1 + TotalLen(tool_outputs) + (Len(tool_outputs) - 1)

C9_Witness ==
    /\ pc = "gather"
    /\ Len(panel) = 2
    /\ Len(tool_outputs) = 2
    /\ tool_outputs[1] # tool_outputs[2]
    /\ tasks[2].prompt.s[1] = "Q"

\* C10: within a session the history only grows by appending: no step
\* removes, reorders or rewrites a turn that is already there.
C10_HistoryAppendOnly ==
    [][sessions' = sessions =>
          /\ Len(conversation_history') >= Len(conversation_history)
          /\ SubSeq(conversation_history', 1, Len(conversation_history))
                = conversation_history]_vars

C10_Witness ==
    /\ pc = "loop"
    /\ Len(conversation_history) = 2 + 2 * MaxSteps
    /\ Len(tasks) > 0

\* C11: whatever the expert replies (an object, text that is not JSON, JSON
\* that is not an object), the step that appended the assistant turn either
\* goes on to append a tool turn (it is dispatching while the panel is in
\* flight), or ends the session with a terminal outcome, the malformed reply
\* included; no step ends by an uncaught failure.
C11_EveryReplyHandled ==
    LastReplyIn(Replies) =>
        \/ pc = "gather"
        \/ outcome.kind \in {"Concluded", "RawFallback", "UnknownTool"}

\* C12: over a whole session, whatever the verbose and thinking flags are,
\* stdout receives exactly one message, written at the terminal step (the
\* answer, the fallback text or the exhaustion notice): nothing is on stdout
\* while the session runs, never more than one message is there, and a
\* session that ended with one of the four outcomes has written one. The
\* reasoning trace and all narration go to stderr.
C12_OneMessageOnStdout ==
    /\ Len(stdout) <= 1
    /\ ~Ended => stdout = <<>>
    /\ outcome.kind \in {"Concluded", "RawFallback", "UnknownTool", "StepsExhausted"}
          => Len(stdout) = 1

\* C13: with write_convo, a session that ends on final_answer has printed the
\* answer, its transcript (when the write succeeded) is the whole history up
\* to the final assistant turn, and a failed write does not abort anything:
\* the session is Concluded and the process does not exit with an error.
\* No transcript exists for another outcome or without write_convo.
C13_TranscriptWriteNonFatal ==
    /\ (write_convo /\ LastReplyIn(FinalReplies)) =>
          /\ outcome.kind = "Concluded"
          /\ exit_code # 1
          /\ Len(stdout) > 0
          /\ Last(stdout) = outcome.arg
          /\ convo \in {<<>>, <<conversation_history>>}
    /\ convo # <<>> => (write_convo /\ outcome.kind = "Concluded")

\* The command line has a model:temperature string that is not of that form.
MalformedArgs ==
    \/ args.expert # DefaultExpertArg
    \/ \E j \in 1..Len(args.panel) : args.panel[j] \in BadArgs

Interactive == ~Truthy(question)

\* C14: without a question argument main runs a read loop: every input line
\* other than exit/quit (in any case) starts one session with that line as
\* the prompt; when a session ends as Concluded, RawFallback, UnknownTool or
\* StepsExhausted the process is back at the prompt and still running; the
\* loop is left with exit code 0 (exit, quit or an interrupt). A failure
\* raised out of a session ends the process with a non-zero exit code, and
\* so does a malformed model:temperature argument, before any session.
C14_ReadLoopAndExitCodes ==
    /\ [](MalformedArgs =>
            /\ sessions = 0
            /\ pc \in {"start", "exited"}
            /\ pc = "exited" => exit_code \notin {-1, 0})
    /\ []((Interactive /\ Len(conversation_history) >= 2) =>
            /\ conversation_history[2].role = "user"
            /\ \E line \in Lines :
                  /\ conversation_history[2].content = <<line>>
                  /\ line \notin {"exit", "quit", "EXIT", "QUIT"})
    /\ [][(Interactive /\ pc = "main" /\ pc' = "loop") =>
            (sessions' = sessions + 1 /\ exit_code' = -1)]_vars
    /\ [][(Interactive /\ outcome.kind = "Running"
              /\ outcome'.kind \in {"Concluded", "RawFallback", "UnknownTool",
                                    "StepsExhausted"}) =>
            (pc' = "main" /\ exit_code' = -1 /\ sessions' = sessions)]_vars
    /\ [][(Interactive /\ pc = "main" /\ pc' = "exited") => exit_code' = 0]_vars
    /\ [][(outcome.kind = "Running" /\ outcome'.kind = "Raised") =>
            (pc' = "exited" /\ exit_code' \notin {-1, 0})]_vars
    /\ [](exit_code = 0 => (pc = "exited" /\ outcome.kind # "Raised"))

C14_Witness ==
    /\ Interactive
    /\ sessions = 2
    /\ outcome.kind = "StepsExhausted"
    /\ chat_calls >= 1
    /\ pc = "exited"
    /\ exit_code = 0

\* What a member's own call can yield.
OwnResults(j) == {query(panel[j], result) : result \in MemberResults}

\* C15: a panel consultation starts every member's call before it awaits any
\* of them and returns only when each call has returned or failed. While it
\* waits, one call completes at a time and changes nothing of its siblings:
\* a failed call cancels, skips or fails no other call, every member ends
\* with the result of its own call, and a slow member only delays the join.
C15_PanelFanOutJoin ==
    /\ [](pc = "gather" =>
            /\ Len(tasks) = Len(panel)
            /\ Len(adapter_calls) >= Len(panel)
            /\ \A j \in 1..Len(panel) :
                  adapter_calls[Len(adapter_calls) - Len(panel) + j]
                      = [fn |-> "query", to |-> panel[j], arg |-> tasks[j].prompt])
    /\ [](\A j \in 1..Len(tasks) : tasks[j].done => tasks[j].resp \in OwnResults(j))
    /\ [][(pc # "gather" /\ pc' = "gather") =>
            \A j \in 1..Len(tasks') : ~tasks'[j].done]_vars
    /\ [][(pc = "gather" /\ pc' = "gather" /\ tasks' # tasks) =>
            \E j \in 1..Len(tasks) :
                /\ ~tasks[j].done
                /\ tasks'[j].done
                /\ completed' = Append(completed, j)
                /\ \A k \in 1..Len(tasks) : k # j => tasks'[k] = tasks[k]]_vars
    /\ [][(pc = "gather" /\ pc' # "gather") =>
            /\ pc' = "loop"
            /\ \A j \in 1..Len(tasks) : tasks[j].done
            /\ tasks' = tasks
            /\ Len(conversation_history') = Len(conversation_history) + 1]_vars

C15_Witness ==
    /\ pc = "loop"
    /\ Len(tasks) = 2
    /\ completed = <<1, 2>>
    /\ tasks[1].resp.exc
    /\ tasks[2].resp = query(panel[2], "ok")
    /\ Last(conversation_history).role = "tool"

\* The expert's inference call of the next step is issued.
ChatIssued == sessions' = sessions /\ chat_calls' = chat_calls + 1

\* Member calls of a panel consultation that have not completed.
Pending == {j \in 1..Len(tasks) : ~tasks[j].done}

\* C16: the steps of a session run one after the other. The inference call
\* of a step is issued only from the loop head, when the tool result of the
\* step before it is in the history (after the join, for llama_panel) and no
\* member call is pending; and while a panel consultation is in flight
\* nothing else is dispatched: no inference call, no other adapter call.
C16_StepsSequential ==
    /\ [][ChatIssued =>
            /\ pc = "loop"
            /\ Pending = {}
            /\ chat_calls = i
            /\ RolesCount("tool") = chat_calls
            /\ RolesCount("assistant") = chat_calls
            /\ Last(conversation_history).role \in {"user", "tool"}]_vars
    /\ [][(pc = "gather" /\ sessions' = sessions) =>
            (chat_calls' = chat_calls /\ adapter_calls' = adapter_calls)]_vars
    /\ [](Pending # {} => (pc = "gather" /\ chat_calls = i + 1))

C16_Witness ==
    /\ pc = "gather"
    /\ chat_calls = 3
    /\ Len(completed) = 1
    /\ conversation_history[3].role = "assistant"
    /\ RawOf(conversation_history[3]) = R_panel
    /\ conversation_history[4].role = "tool"

\* C17: while a panel consultation is in flight the history, the tool outputs
\* and the step index do not change: a member call reads the prompt it was
\* given and yields a value, nothing more. The join is the one step that
\* merges: it appends the tool turn made of the step's echo and the members'
\* sections to the history and to the tool outputs, and counts the step.
C17_PanelIsolation ==
    /\ [][(pc = "gather" /\ pc' = "gather") =>
            /\ conversation_history' = conversation_history
            /\ tool_outputs' = tool_outputs
            /\ i' = i
            /\ tool_output' = tool_output
            /\ \A j \in 1..Len(tasks) : tasks'[j].prompt = tasks[j].prompt]_vars
    /\ [][(pc = "gather" /\ pc' = "loop") =>
            LET merged == tool_output
                          \o panel_output(panel, [j \in 1..Len(tasks) |-> tasks[j].resp])
            IN  /\ conversation_history' =
                      Append(conversation_history, Turn("tool", merged))
                /\ tool_outputs' = Append(tool_outputs, merged)
                /\ i' = i + 1]_vars

C17_Witness ==
    /\ pc = "gather"
    /\ Len(tasks) = 2
    /\ Len(completed) = 2
    /\ Len(tool_outputs) = 1
    /\ i = 1
    /\ Last(conversation_history).role = "assistant"

\* C18: sessions of one ExpertSystem share no mutable state. Every call of
\* get_consensus_answer, whatever the sessions before it left behind, starts
\* at step 0 with a history of exactly the system turn and the new user turn
\* and with no tool outputs, no member calls and no tool output in the making.
C18_SessionsStartFresh ==
    [][sessions' = sessions + 1 =>
          /\ Len(conversation_history') = 2
          /\ conversation_history'[1].role = "system"
          /\ conversation_history'[2].role = "user"
          /\ conversation_history'[2].content
                \in {Str(question)} \cup {<<line>> : line \in Lines}
          /\ tool_outputs' = <<>>
          /\ tool_output' = <<>>
          /\ tasks' = <<>>
          /\ i' = 0
          /\ chat_calls' = 0
          /\ outcome' = Running]_vars

C18_Witness ==
    /\ sessions = 2
    /\ max_reasoning_steps = 2
    /\ pc = "loop"
    /\ Len(conversation_history) = 2
    /\ tool_outputs = <<>>
    /\ chat_calls = 0

\* The places of a text where a tool result echoes a reason that the expert
\* gave; a reply without a reason is echoed as None.
ReasonEchoes(text) ==
    {p \in 1..(Len(text) - 1) : text[p] = ") with reason '" /\ text[p + 1] # "None"}

\* The adapter calls that a step added.
NewCalls == SubSeq(adapter_calls', Len(adapter_calls) + 1, Len(adapter_calls'))

\* The dispatch of a step is decided by the tool and its payload, the same
\* for replies with a reason (R_search, R_panel, R_final_reason) and without
\* one (R_read, R_final): one adapter call with the payload as its argument
\* and a tool turn, or the fan-out to the panel, or the end of the session
\* with the answer; R_final and R_final_reason end it the same way.
C19_SameDispatch ==
    /\ [][StepOf({R_search}) =>
            /\ NewCalls = << [fn |-> "search_web", to |-> "googlesearch",
                              arg |-> PyStr(<<"x">>)] >>
            /\ pc' = "loop" /\ i' = i + 1 /\ outcome' = Running
            /\ Len(conversation_history') = Len(conversation_history) + 2]_vars
    /\ [][StepOf({R_read}) =>
            /\ Len(NewCalls) = 1
            /\ NewCalls[1].fn = "read_webpage"
            /\ NewCalls[1].arg = PyStr(<<"u">>)
            /\ pc' = "loop" /\ i' = i + 1 /\ outcome' = Running
            /\ Len(conversation_history') = Len(conversation_history) + 2]_vars
    /\ [][StepOf({R_panel}) =>
            /\ Len(NewCalls) = Len(panel)
            /\ \A j \in 1..Len(panel) :
                  NewCalls[j].fn = "query" /\ NewCalls[j].to = panel[j]
            /\ pc' = "gather" /\ i' = i /\ outcome' = Running
            /\ Len(conversation_history') = Len(conversation_history) + 1]_vars
    /\ [][StepOf({R_final, R_final_reason}) =>
            /\ NewCalls = <<>>
            /\ outcome' \in {Outcome("Concluded", <<"42">>), Outcome("Raised", <<"OSError">>)}
            /\ Last(stdout') = <<"42">>
            /\ i' = i
            /\ pc' \in {"main", "exited"}
            /\ Len(conversation_history') = Len(conversation_history) + 1]_vars

\* C19 as claimed: the reason never affects control flow, and two sessions
\* whose replies differ only in the reason call the adapters with the same
\* arguments. An argument that holds the echo of a given reason differs
\* between two such sessions, so no adapter argument holds one.
C19_ReasonNeverReachesAdapters ==
    /\ C19_SameDispatch
    /\ [](\A n \in 1..Len(adapter_calls) :
            adapter_calls[n].arg.t = "str" => ReasonEchoes(adapter_calls[n].arg.s) = {})

\* The places of a panel prompt where the context of earlier tool outputs starts.
ContextStarts(text) ==
    {p \in 1..Len(text) : text[p] = "\n\nContext from previous tool outputs:\n"}

\* C19 as the code has it: the reason never affects control flow, and
\* search_web and read_webpage are called with the payload alone. A panel
\* member's prompt starts with the payload question; a reason of an earlier
\* step is in it only as part of that step's tool output, inside the context
\* that follows the question. The reason of the llama_panel reply itself is
\* not in the prompt.
C19_ReasonOnlyEchoed ==
    /\ C19_SameDispatch
    /\ [](\A n \in 1..Len(adapter_calls) :
            LET call == adapter_calls[n]
            IN  /\ call.fn \in {"search_web", "read_webpage"} =>
                      (call.arg.t = "str" => ReasonEchoes(call.arg.s) = {})
                /\ call.fn = "query" =>
                      /\ call.arg.t = "str"
                      /\ SubSeq(call.arg.s, 1, 1) = <<"Q">>
                      /\ \A p \in ReasonEchoes(call.arg.s) :
                            \E c \in ContextStarts(call.arg.s) : c < p)
    /\ [](pc = "gather" =>
            \A j \in 1..Len(tasks) :
                Cardinality(ReasonEchoes(Str(tasks[j].prompt)))
                    = Cardinality({m \in 1..Len(tool_outputs) :
                                      ReasonEchoes(tool_outputs[m]) # {}}))

C19_Witness ==
    /\ outcome = Outcome("Concluded", <<"42">>)
    /\ LastReplyIn({R_final_reason})
    /\ Len(adapter_calls) = 1 + Len(panel)
    /\ adapter_calls[1].fn = "search_web"
    /\ adapter_calls[2].fn = "query"
    /\ ReasonEchoes(adapter_calls[2].arg.s) # {}

\* The contents of the history's tool turns, in order.
ToolTurnContents ==
    LET at == {n \in 1..Len(conversation_history) : conversation_history[n].role = "tool"}
        nth[k \in 0..Cardinality(at)] ==
            IF k = 0 THEN 0
            ELSE CHOOSE n \in at : n > nth[k - 1] /\ \A m \in at : m > nth[k - 1] => n <= m
    IN  [k \in 1..Cardinality(at) |-> conversation_history[nth[k]].content]

\* C20: in every state of a session the history is the system turn, the user
\* turn and then assistant and tool turns in strict alternation; it ends
\* with an assistant turn only at the step that ended the session or while
\* that step's panel is consulted. The tool outputs are the contents of the
\* tool turns, in order. The prompt of a llama_panel call of step i carries
\* as context the tool outputs of the i steps before it and nothing of its
\* own result.
C20_HistoryShape ==
    sessions >= 1 =>
        /\ Len(conversation_history) >= 2
        /\ conversation_history[1].role = "system"
        /\ conversation_history[2].role = "user"
        /\ \A n \in 3..Len(conversation_history) :
              conversation_history[n].role = (IF n % 2 = 1 THEN "assistant" ELSE "tool")
        /\ Last(conversation_history).role = "assistant" => (Ended \/ pc = "gather")
        /\ tool_outputs = ToolTurnContents
        /\ pc = "gather" =>
              /\ Len(tool_outputs) = i
              /\ Len(conversation_history) = 2 + 2 * i + 1
              /\ \A j \in 1..Len(tasks) :
                    LET text == Str(tasks[j].prompt)
                    IN  IF i = 0
                        THEN ContextStarts(text) = {}
                        ELSE /\ ContextStarts(text) = {2}
                             /\ EmbedsInOrder(text, 2, ToolTurnContents)
                             /\ Len(text) = 2 + TotalLen(ToolTurnContents) + (i - 1)

C20_Witness ==
    /\ pc = "gather"
    /\ i = 2
    /\ RawOf(conversation_history[3]) = R_panel
    /\ conversation_history[4].content = tool_outputs[1]
    /\ conversation_history[6].content = tool_outputs[2]
    /\ Len(conversation_history) = 7

====
